---- MODULE Spec2Model ----
(***************************************************************************)
(* Model of src/msg.rs of cw-vault-standard: the Token type with its two   *)
(* narrowing conversions (to_cw20_addr, to_native_denom), and the message  *)
(* envelopes ExecuteMsg / QueryMsg with their feature-gated default        *)
(* extension payloads ExtensionExecuteMsg / ExtensionQueryMsg.             *)
(*                                                                         *)
(* Strings are sequences of characters, so that format!() is modelled as   *)
(* the concatenation it performs.  The address validator (&dyn Api) is an  *)
(* external collaborator: it is modelled by its answer to the one string   *)
(* the token stores, drawn from every outcome StdResult<Addr> allows.      *)
(***************************************************************************)
EXTENDS Integers, Sequences, FiniteSets, TLC

VARIABLES features, token, api, cw20Res, denomRes, apiCalls, msg

vars == << features, token, api, cw20Res, denomRes, apiCalls, msg >>

(* ------------------------------ bounds --------------------------------- *)

\* Longest denom / address / validator message string that is enumerated.
MaxLen == 2

\* Largest Uint128 amount that is enumerated in a message.
MaxAmount == 1

Chars == {"a", "b"}

Strings == UNION {[1..k -> Chars] : k \in 0..MaxLen}

\* Strings short enough to be used as recipient / owner fields of messages.
ShortStrings == {s \in Strings : Len(s) <= 1}

Amounts == 0..MaxAmount

(* ------------------------- StdResult / StdError ------------------------ *)

NoResult == [tag |-> "none"]

Ok(v) == [tag |-> "ok", val |-> v]

Err(e) == [tag |-> "err", err |-> e]

\* The StdError variants the model distinguishes.
StdErrorKinds == {"GenericErr", "ParseErr", "NotFound"}

\* StdError::generic_err(msg)
generic_err(m) == [kind |-> "GenericErr", msg |-> m]

\* Addr: a validated address handle wrapping a string.
Addr(s) == [addr |-> s]

(* -------------------------- the Api collaborator ----------------------- *)

\* Everything addr_validate may answer: an address handle or any StdError.
ApiOutcomes ==
    {Ok(Addr(h)) : h \in Strings}
        \cup {Err([kind |-> k, msg |-> m]) : k \in StdErrorKinds, m \in ShortStrings}

\* api.addr_validate(input): the validator's answer for that string.
addr_validate(a, input) == a[input]

(* --------------------------------- Token ------------------------------- *)

Native(denom) == [kind |-> "Native", value |-> denom]

Cw20(addr) == [kind |-> "Cw20", value |-> addr]

Token == {Native(d) : d \in Strings} \cup {Cw20(a) : a \in Strings}

NativeErrPrefix == <<
    "N", "a", "t", "i", "v", "e", " ", "t", "o", "k", "e", "n", " " >>

NativeErrSuffix == <<
    " ", "c", "a", "n", "n", "o", "t", " ", "b", "e", " ", "c", "o", "n",
    "v", "e", "r", "t", "e", "d", " ", "t", "o", " ", "a", "d", "d", "r",
    "e", "s", "s" >>

Cw20ErrMsg == <<
    "C", "w", "2", "0", " ", "t", "o", "k", "e", "n", " ", "c", "a", "n",
    "n", "o", "t", " ", "b", "e", " ", "c", "o", "n", "v", "e", "r", "t",
    "e", "d", " ", "t", "o", " ", "n", "a", "t", "i", "v", "e", " ", "t",
    "o", "k", "e", "n" >>

\* Mutant: the variant is not checked, every token goes to the validator.
to_cw20_addr_unchecked(self, a) ==
    [res |-> addr_validate(a, self.value), calls |-> << self.value >>]

\* Mutant: the stored string is wrapped without asking the validator.
to_cw20_addr_unvalidated(self, a) ==
    IF self.kind = "Native"
    THEN [res |-> Err(generic_err(NativeErrPrefix \o self.value \o NativeErrSuffix)),
          calls |-> << >>]
    ELSE [res |-> Ok(Addr(self.value)), calls |-> << >>]

\* Mutant: a rejected address is submitted to the validator a second time.
to_cw20_addr_retry(self, a) ==
    IF self.kind = "Native"
    THEN [res |-> Err(generic_err(NativeErrPrefix \o self.value \o NativeErrSuffix)),
          calls |-> << >>]
    ELSE IF addr_validate(a, self.value).tag = "ok"
         THEN [res |-> addr_validate(a, self.value), calls |-> << self.value >>]
         ELSE [res |-> addr_validate(a, self.value),
               calls |-> << self.value, self.value >>]

\* Mutant: the error message is a fixed text that leaves the denom out.
to_cw20_addr_nodenom(self, a) ==
    IF self.kind = "Native"
    THEN [res |-> Err(generic_err(NativeErrPrefix \o NativeErrSuffix)),
          calls |-> << >>]
    ELSE [res |-> addr_validate(a, self.value), calls |-> << self.value >>]

\* Token::to_cw20_addr(&self, api): the result, and the strings handed to
\* api.addr_validate while computing it.
to_cw20_addr(self, a) ==
    IF self.kind = "Native"
    THEN [res |-> Err(generic_err(NativeErrPrefix \o self.value \o NativeErrSuffix)),
          calls |-> << >>]
    ELSE [res |-> addr_validate(a, self.value), calls |-> << self.value >>]

\* Mutant: the variant is not checked, the stored string is returned.
to_native_denom_unchecked(self) == Ok(self.value)

\* Token::to_native_denom(&self)
to_native_denom(self) ==
    IF self.kind = "Native"
    THEN Ok(self.value)
    ELSE Err(generic_err(Cw20ErrMsg))

(* -------------------------------- messages ----------------------------- *)

\* Cargo features that gate the members of the default extension payloads.
Features == {"keeper", "lockup"}

\* Option<String>
None == [some |-> FALSE]

Some(v) == [some |-> TRUE, v |-> v]

OptionString == {None} \cup {Some(s) : s \in ShortStrings}

\* The extensions' own message unions; their shape is opaque to msg.rs.
KeeperExecuteMsg == {"KeeperExecuteMsg"}

LockupExecuteMsg == {"LockupExecuteMsg"}

KeeperQueryMsg == {"KeeperQueryMsg"}

LockupQueryMsg == {"LockupQueryMsg"}

\* Mutant: the Lockup member has lost its #[cfg(feature = "lockup")] gate.
ExtensionExecuteMsg_ungated(f) ==
    (IF "keeper" \in f
     THEN {[member |-> "Keeper", inner |-> k] : k \in KeeperExecuteMsg}
     ELSE {})
        \cup {[member |-> "Lockup", inner |-> l] : l \in LockupExecuteMsg}

\* enum ExtensionExecuteMsg, as compiled with the feature set f.
ExtensionExecuteMsg(f) ==
    (IF "keeper" \in f
     THEN {[member |-> "Keeper", inner |-> k] : k \in KeeperExecuteMsg}
     ELSE {})
        \cup
    (IF "lockup" \in f
     THEN {[member |-> "Lockup", inner |-> l] : l \in LockupExecuteMsg}
     ELSE {})

\* enum ExtensionQueryMsg, as compiled with the feature set f.
ExtensionQueryMsg(f) ==
    (IF "keeper" \in f
     THEN {[member |-> "Keeper", inner |-> k] : k \in KeeperQueryMsg}
     ELSE {})
        \cup
    (IF "lockup" \in f
     THEN {[member |-> "Lockup", inner |-> l] : l \in LockupQueryMsg}
     ELSE {})

\* enum ExecuteMsg<T>
ExecuteMsg(T) ==
    {[variant |-> "Deposit", amount |-> a, recipient |-> r] :
        a \in Amounts, r \in OptionString}
        \cup
    {[variant |-> "Redeem", recipient |-> r, amount |-> a] :
        r \in OptionString, a \in Amounts}
        \cup
    {[variant |-> "VaultExtension", payload |-> p] : p \in T}

\* enum QueryMsg<T>
QueryMsg(T) ==
    {[variant |-> "VaultStandardInfo"], [variant |-> "Info"],
     [variant |-> "TotalAssets"], [variant |-> "TotalVaultTokenSupply"]}
        \cup
    {[variant |-> v, amount |-> a] :
        v \in {"PreviewDeposit", "PreviewRedeem",
               "ConvertToShares", "ConvertToAssets"},
        a \in Amounts}
        \cup
    {[variant |-> "MaxDeposit", recipient |-> r] : r \in ShortStrings}
        \cup
    {[variant |-> "MaxRedeem", owner |-> o] : o \in ShortStrings}
        \cup
    {[variant |-> "VaultExtension", payload |-> p] : p \in T}

NoMsg == [family |-> "none"]

(* -------------------------------- actions ------------------------------ *)

\* A build (a feature set), a Token value (Token::Native(s) or
\* Token::Cw20(s), no validation at construction) and the validator in
\* scope, which answers for the string the token stores.
Init ==
    /\ features \in SUBSET Features
    /\ token \in Token
    /\ api \in [{token.value} -> ApiOutcomes]
    /\ cw20Res = NoResult
    /\ denomRes = NoResult
    /\ apiCalls = << >>
    /\ msg = NoMsg

\* token.to_cw20_addr(api) is called.
CallToCw20Addr ==
    /\ cw20Res' = to_cw20_addr(token, api).res
    /\ apiCalls' = to_cw20_addr(token, api).calls
    /\ UNCHANGED << features, token, api, denomRes, msg >>

\* token.to_native_denom() is called.
CallToNativeDenom ==
    /\ denomRes' = to_native_denom(token)
    /\ UNCHANGED << features, token, api, cw20Res, apiCalls, msg >>

\* A value of ExecuteMsg<ExtensionExecuteMsg> (the default payload type) is
\* constructed.
BuildExecuteMsg ==
    /\ \E m \in ExecuteMsg(ExtensionExecuteMsg(features)) :
           msg' = [family |-> "execute", body |-> m]
    /\ UNCHANGED << features, token, api, cw20Res, denomRes, apiCalls >>

\* A value of QueryMsg<ExtensionQueryMsg> (the default payload type) is
\* constructed.
BuildQueryMsg ==
    /\ \E m \in QueryMsg(ExtensionQueryMsg(features)) :
           msg' = [family |-> "query", body |-> m]
    /\ UNCHANGED << features, token, api, cw20Res, denomRes, apiCalls >>

Next ==
    \/ CallToCw20Addr
    \/ CallToNativeDenom
    \/ BuildExecuteMsg
    \/ BuildQueryMsg

Spec == Init /\ [][Next]_vars

(* ------------------------------- properties ---------------------------- *)

\* The StdError variant both conversions use to report a call on the wrong
\* Token variant (StdError::generic_err).
InvalidTokenKind == "GenericErr"

\* C1: for a Native(d) token, to_native_denom() returns Ok(d) with d
\* unchanged, and to_cw20_addr(api) fails with the InvalidTokenKind error,
\* whatever the validator would answer.
C1_NativeConversions ==
    token.kind = "Native" =>
        /\ denomRes # NoResult => denomRes = Ok(token.value)
        /\ cw20Res # NoResult =>
               /\ cw20Res.tag = "err"
               /\ cw20Res.err.kind = InvalidTokenKind

\* Both conversions were called on a Native token with a non-empty denom
\* that the validator would have accepted.
C1_Witness ==
    /\ token.kind = "Native"
    /\ token.value # << >>
    /\ api[token.value].tag = "ok"
    /\ denomRes # NoResult
    /\ cw20Res # NoResult

\* C2: for a Cw20 token whose stored address the validator accepts,
\* to_cw20_addr(api) returns exactly the handle the validator produced for
\* that string, and to_native_denom() fails with the InvalidTokenKind error.
C2_Cw20Conversions ==
    (token.kind = "Cw20" /\ api[token.value].tag = "ok") =>
        /\ cw20Res # NoResult =>
               /\ cw20Res = api[token.value]
               /\ apiCalls = << token.value >>
        /\ denomRes # NoResult =>
               /\ denomRes.tag = "err"
               /\ denomRes.err.kind = InvalidTokenKind

\* Both conversions were called on a Cw20 token for which the validator
\* produced a handle that differs from the stored string.
C2_Witness ==
    /\ token.kind = "Cw20"
    /\ api[token.value].tag = "ok"
    /\ api[token.value].val # Addr(token.value)
    /\ cw20Res # NoResult
    /\ denomRes # NoResult

\* C3 (as claimed): on a Cw20 token whose address the validator rejects,
\* to_cw20_addr fails with the validator's failure, the validator is invoked
\* exactly once, and the error kind is distinct from InvalidTokenKind.
C3_Original ==
    (token.kind = "Cw20" /\ api[token.value].tag = "err" /\ cw20Res # NoResult) =>
        /\ cw20Res = api[token.value]
        /\ apiCalls = << token.value >>
        /\ cw20Res.err.kind # InvalidTokenKind

\* C3 (amended): on a Cw20 token whose address the validator rejects,
\* to_cw20_addr fails with exactly the error the validator returned (kind and
\* message unchanged, whatever kind that is) and the validator is invoked
\* exactly once, with the stored string.
C3_RejectionPropagated ==
    (token.kind = "Cw20" /\ api[token.value].tag = "err" /\ cw20Res # NoResult) =>
        /\ cw20Res.tag = "err"
        /\ cw20Res = api[token.value]
        /\ apiCalls = << token.value >>

\* to_cw20_addr was called on a Cw20 token whose address the validator
\* rejects with an error of the generic kind.
C3_Witness ==
    /\ token.kind = "Cw20"
    /\ api[token.value].tag = "err"
    /\ api[token.value].err.kind = "GenericErr"
    /\ cw20Res # NoResult

\* C4: the error to_cw20_addr returns for Native(d) carries d in its
\* message (the text between the two fixed parts of the message is d), for
\* every d, and the validator is not invoked.
C4_NativeErrorCarriesDenom ==
    (token.kind = "Native" /\ cw20Res # NoResult) =>
        /\ cw20Res.tag = "err"
        /\ LET m == cw20Res.err.msg
               n == Len(NativeErrPrefix)
           IN  /\ Len(m) >= n + Len(NativeErrSuffix)
               /\ SubSeq(m, 1, n) = NativeErrPrefix
               /\ SubSeq(m, Len(m) - Len(NativeErrSuffix) + 1, Len(m))
                      = NativeErrSuffix
               /\ SubSeq(m, n + 1, Len(m) - Len(NativeErrSuffix)) = token.value
        /\ apiCalls = << >>

\* to_cw20_addr was called on a Native token with a denom of maximal length.
C4_Witness ==
    /\ token.kind = "Native"
    /\ Len(token.value) = MaxLen
    /\ cw20Res # NoResult

\* C9: for every feature set, the two default payload unions have exactly
\* one member per enabled capability, none for a disabled one, and the same
\* members as each other; with no feature enabled both are empty and no
\* VaultExtension message of the default payload type exists.
C9_ExtensionMembers ==
    LET MemberOf == [keeper |-> "Keeper", lockup |-> "Lockup"]
        execMembers == {p.member : p \in ExtensionExecuteMsg(features)}
        queryMembers == {p.member : p \in ExtensionQueryMsg(features)}
    IN  /\ execMembers = {MemberOf[c] : c \in features}
        /\ queryMembers = execMembers
        /\ Cardinality(execMembers) = Cardinality(features)
        /\ Cardinality(queryMembers) = Cardinality(features)
        /\ features = {} =>
               /\ ExtensionExecuteMsg(features) = {}
               /\ ExtensionQueryMsg(features) = {}
        /\ (msg.family # "none" /\ msg.body.variant = "VaultExtension") =>
               /\ features # {}
               /\ msg.body.payload.member \in {MemberOf[c] : c \in features}

\* A VaultExtension command was built in a build with only keeper enabled.
C9_Witness ==
    /\ features = {"keeper"}
    /\ msg.family = "execute"
    /\ msg.body.variant = "VaultExtension"

\* C10: once both conversions have been called on a token, they have not
\* both succeeded; exactly one succeeded if the token is Native or is Cw20
\* with an accepted address; both failed if it is Cw20 with a rejected
\* address.  A step that yields a conversion result leaves the token as it
\* was.
C10_MutuallyExclusive ==
    /\ [](  (cw20Res # NoResult /\ denomRes # NoResult) =>
              LET okC == cw20Res.tag = "ok"
                  okN == denomRes.tag = "ok"
                  accepted == api[token.value].tag = "ok"
              IN  /\ ~(okC /\ okN)
                  /\ (token.kind = "Native" \/ accepted) => (okC # okN)
                  /\ (token.kind = "Cw20" /\ ~accepted) => (~okC /\ ~okN) )
    /\ [][ (cw20Res' # NoResult \/ denomRes' # NoResult) => token' = token ]_vars

\* Both conversions were called on a Cw20 token with a rejected address.
C10_Witness ==
    /\ token.kind = "Cw20"
    /\ api[token.value].tag = "err"
    /\ cw20Res # NoResult
    /\ denomRes # NoResult

====
